---- MODULE Spec2Model ----
(***************************************************************************)
(* A model of the Dhaka Dispatch background worker (src/src/index.ts):     *)
(* the batch orchestrator processNewsBatch and the functions it calls.     *)
(*                                                                         *)
(* Text is modelled as a sequence of tokens.  A token is one character     *)
(* (" ", "\n", ":", ",", "(", ")", "|", a digit, a letter) or one of the   *)
(* fixed words the code compares whole (IRRELEVANT, CHOSEN_ID, ...), which *)
(* contain no whitespace, colon or comma and are therefore never cut by    *)
(* trim() or split().                                                      *)
(***************************************************************************)
EXTENDS Integers, Sequences, FiniteSets, TLC

VARIABLES
    pc,                \* where processNewsBatch is suspended
    catIdx,            \* index into NEWS_CATEGORIES of the loop variable `category`
    usedArticleUrls,   \* the Set<string> of line 87
    articles,          \* `articles` of line 94
    analysisResult,    \* `analysisResult` of line 101
    chosenArticle,     \* `chosenArticle` of line 106
    mainImageSrc,      \* `mainImageSrc` of line 111
    cloudinaryUrl,     \* `cloudinaryUrl` of line 123
    headlineParts,     \* `headlineParts` of line 327
    fontSize,          \* `fontSize` of line 328
    responses,         \* the news source's answers to the fetches of one call
    replyText,         \* `result.text` of the model call, line 221
    headline,          \* argument of splitHeadlineForHighlighting / getDynamicFontSize
    highlightWords,    \* argument of splitHeadlineForHighlighting
    fetchResult,       \* what fetchNewsForCategory returned or raised
    fetchStarted,      \* categories fetchNewsForCategory was called for, in call order
    chosenLog,         \* [category, link] of every 'Chosen article' log line of the run
    prompt,            \* the article list serialized into the prompt, line 174
    imageArg,          \* the article handed to prepareMainImage, line 111
    webhookPayload,    \* the payload posted by sendToWebhook for this category
    keyParsing,        \* whether the try block of lines 226-246 was entered
    outcomes,          \* how each category processed so far ended
    calls,             \* the calls made for the current category, in order
    response           \* the Response the fetch handler returned, line 81

vars == <<pc, catIdx, usedArticleUrls, articles, analysisResult, chosenArticle,
          mainImageSrc, cloudinaryUrl, headlineParts, fontSize, responses,
          replyText, headline, highlightWords, fetchResult, fetchStarted,
          chosenLog, prompt, imageArg, webhookPayload, keyParsing, outcomes,
          calls, response>>

-----------------------------------------------------------------------------
(* Bounds of the model *)

MaxLinks == 3        \* distinct article links the news source can return
MaxResults == 2      \* articles in one response of the news source (batch runs)
MaxHeadlineLen == 3  \* characters of a headline given to splitHeadlineForHighlighting
MaxFontLen == 170    \* longest headline given to getDynamicFontSize

(* Program constants *)

SliceLimit == 10     \* uniqueArticles.slice(0, 10)

Links == 1..MaxLinks

\* null / undefined of a string-valued field
NULL == "null"
\* an absent object (no article, no analysis result)
NONE == [kind |-> "none"]
\* data[key] of a key that was never set
Undefined == <<"<undefined>">>

-----------------------------------------------------------------------------
(* Generic sequence helpers *)

RECURSIVE Concat(_)
Concat(ss) == IF ss = <<>> THEN <<>> ELSE Head(ss) \o Concat(Tail(ss))

Slice(s, n) == SubSeq(s, 1, IF Len(s) < n THEN Len(s) ELSE n)

Range(s) == {s[i] : i \in DOMAIN s}

-----------------------------------------------------------------------------
(* NEWS_CATEGORIES, index.ts lines 65-71 *)

NEWS_CATEGORIES ==
    << [name |-> "Trending",           apiValue |-> "top"],
       [name |-> "Politics",           apiValue |-> "politics"],
       [name |-> "Crime",              apiValue |-> "crime"],
       [name |-> "Entertainment",      apiValue |-> "entertainment"],
       [name |-> "Business/Corporate", apiValue |-> "business"] >>

NumCategories == Len(NEWS_CATEGORIES)

-----------------------------------------------------------------------------
(* fetchNewsForCategory, index.ts lines 140-171 *)

\* NEWS_CATEGORIES.filter(c => c.apiValue !== "top").map(c => c.apiValue)
OtherCategories ==
    LET NotTop(c) == c.apiValue # "top"
        others    == SelectSeq(NEWS_CATEGORIES, NotTop)
    IN  [i \in DOMAIN others |-> others[i].apiValue]

\* One answer of the news source to fetch(url):
\*   kind "network_error": the fetch promise rejects;
\*   kind "http": a response with `ok`, whose body is JSON or not, and whose
\*   JSON body has `results` (a list of articles) or lacks it.
NetworkError == [kind |-> "network_error", ok |-> FALSE, json |-> FALSE,
                 hasResults |-> FALSE, results |-> <<>>]
HttpResponse(ok, json, hasResults, results) ==
    [kind |-> "http", ok |-> ok, json |-> json,
     hasResults |-> hasResults, results |-> results]

\* r.results || []
ResultsOrEmpty(r) == IF r.hasResults THEN r.results ELSE <<>>

\* responses.flatMap(r => r.results || [])
AllArticles(resps) == Concat([i \in DOMAIN resps |-> ResultsOrEmpty(resps[i])])

\* Map.prototype.set on the insertion-ordered entries of a Map keyed by link:
\* an existing key keeps its position and takes the new value.
MapSet(m, a) ==
    IF \E i \in DOMAIN m : m[i].link = a.link
    THEN [i \in DOMAIN m |-> IF m[i].link = a.link THEN a ELSE m[i]]
    ELSE Append(m, a)

\* Array.from(new Map(allArticles.map(a => [a.link, a])).values())
RECURSIVE MapValues(_, _)
MapValues(m, s) == IF s = <<>> THEN m ELSE MapValues(MapSet(m, Head(s)), Tail(s))

UniqueArticles(allArticles) == MapValues(<<>>, allArticles)

\* Array.prototype.sort is stable; the comparator puts the later pubDate first.
RECURSIVE InsertByDate(_, _)
InsertByDate(sorted, a) ==
    IF sorted = <<>> THEN <<a>>
    ELSE IF Head(sorted).pubDate >= a.pubDate
         THEN <<Head(sorted)>> \o InsertByDate(Tail(sorted), a)
         ELSE <<a>> \o sorted

RECURSIVE SortByDateDesc(_)
SortByDateDesc(s) ==
    IF s = <<>> THEN <<>>
    ELSE InsertByDate(SortByDateDesc(SubSeq(s, 1, Len(s) - 1)), s[Len(s)])

\* a.image_url && (a.content || a.description)
\* Faulty variant: an article without an image passes the filter.
IsValidArticleTextOnly(a) == a.content # NULL \/ a.description # NULL

\* line 166
IsValidArticle(a) == a.image_url # NULL /\ (a.content # NULL \/ a.description # NULL)

ValidArticles(raw) == SelectSeq(raw, IsValidArticle)

\* Faulty variant: the filter on the used links is left out.
UnusedArticlesNoFilter(valid, usedUrls) == valid

UnusedArticles(valid, usedUrls) ==
    LET Unused(a) == a.link \notin usedUrls IN SelectSeq(valid, Unused)

Throw(msg) == [kind |-> "throw", error |-> msg, articles |-> <<>>]
Return(as) == [kind |-> "return", error |-> "", articles |-> as]

\* lines 143-155: the "top" branch.  Promise.all rejects when a fetch rejects
\* or a body is not JSON; response.ok is not looked at.
AggregateRawArticles(resps) ==
    IF \E i \in DOMAIN resps : resps[i].kind = "network_error" \/ ~resps[i].json
    THEN Throw("fetch failed")
    ELSE Return(Slice(SortByDateDesc(UniqueArticles(AllArticles(resps))), SliceLimit))

\* lines 157-164: the single-category branch.
SingleRawArticles(resp) ==
    IF resp.kind = "network_error" THEN Throw("fetch failed")
    ELSE IF ~resp.ok THEN Throw("NewsData API request failed")
    ELSE IF ~resp.json THEN Throw("invalid json")
    ELSE Return(ResultsOrEmpty(resp))

fetchNewsForCategory(category, usedUrls, resps) ==
    LET raw == IF category.apiValue = "top"
               THEN AggregateRawArticles(resps)
               ELSE SingleRawArticles(resps[1])
    IN  IF raw.kind = "throw" THEN raw
        ELSE Return(UnusedArticles(ValidArticles(raw.articles), usedUrls))

\* How many fetches one call of fetchNewsForCategory issues.
NumFetches(category) == IF category.apiValue = "top" THEN Len(OtherCategories) ELSE 1

-----------------------------------------------------------------------------
(* Text helpers: String.prototype.trim, split, join; parseInt *)

Whitespace == {" ", "\n"}

RECURSIVE TrimStart(_)
TrimStart(s) ==
    IF s # <<>> /\ Head(s) \in Whitespace THEN TrimStart(Tail(s)) ELSE s

RECURSIVE TrimEnd(_)
TrimEnd(s) ==
    IF s # <<>> /\ s[Len(s)] \in Whitespace
    THEN TrimEnd(SubSeq(s, 1, Len(s) - 1)) ELSE s

Trim(s) == TrimEnd(TrimStart(s))

\* s.split(sep) for a one-character separator: always at least one piece.
RECURSIVE SplitOn(_, _)
SplitOn(s, sep) ==
    IF \A i \in DOMAIN s : s[i] # sep THEN <<s>>
    ELSE LET i == CHOOSE k \in DOMAIN s : s[k] = sep /\ \A j \in 1..(k - 1) : s[j] # sep
         IN  <<SubSeq(s, 1, i - 1)>> \o SplitOn(SubSeq(s, i + 1, Len(s)), sep)

\* parts.join(sep)
RECURSIVE Join(_, _)
Join(parts, sep) ==
    IF parts = <<>> THEN <<>>
    ELSE IF Len(parts) = 1 THEN parts[1]
    ELSE parts[1] \o <<sep>> \o Join(Tail(parts), sep)

MapTrim(ss) == [i \in DOMAIN ss |-> Trim(ss[i])]

Digits == {"0", "1", "2", "3", "4", "5", "6", "7", "8", "9"}

DigitValue(d) ==
    CASE d = "0" -> 0 [] d = "1" -> 1 [] d = "2" -> 2 [] d = "3" -> 3 [] d = "4" -> 4
      [] d = "5" -> 5 [] d = "6" -> 6 [] d = "7" -> 7 [] d = "8" -> 8 [] d = "9" -> 9

\* a JavaScript number: an integer or NaN
Num(n) == [isNaN |-> FALSE, n |-> n]
NaN == [isNaN |-> TRUE, n |-> 0]

\* the longest prefix of digits of s
RECURSIVE DigitPrefix(_)
DigitPrefix(s) ==
    IF s # <<>> /\ Head(s) \in Digits THEN <<Head(s)>> \o DigitPrefix(Tail(s)) ELSE <<>>

RECURSIVE DigitsValue(_)
DigitsValue(ds) ==
    IF ds = <<>> THEN 0
    ELSE 10 * DigitsValue(SubSeq(ds, 1, Len(ds) - 1)) + DigitValue(ds[Len(ds)])

\* parseInt(s, 10): leading whitespace, an optional sign, then the longest
\* prefix of digits; NaN when there is no digit (also for undefined).
parseInt(s) ==
    LET t    == TrimStart(s)
        neg  == t # <<>> /\ Head(t) = "-"
        body == IF t # <<>> /\ Head(t) \in {"-", "+"} THEN Tail(t) ELSE t
        ds   == DigitPrefix(body)
    IN  IF ds = <<>> THEN NaN
        ELSE Num(IF neg THEN 0 - DigitsValue(ds) ELSE DigitsValue(ds))

-----------------------------------------------------------------------------
(* buildGeminiPrompt, index.ts lines 173-176: the serialized article list *)

buildGeminiPrompt(as) ==
    [i \in DOMAIN as |->
        [ID      |-> i,
         Title   |-> as[i].title,
         Content |-> IF as[i].content # NULL THEN as[i].content ELSE as[i].description]]

-----------------------------------------------------------------------------
(* analyzeArticlesWithGemini, index.ts lines 213-247 *)

RequiredKeys ==
    {"CHOSEN_ID", "HEADLINE", "HIGHLIGHT_WORDS", "IMAGE_PROMPT", "CAPTION", "SOURCE_NAME"}

\* lines 230-233: one line of the reply as a key and a value
LineEntry(line) ==
    LET parts == SplitOn(line, ":")
    IN  [valid |-> parts[1] # <<>> /\ Len(parts) > 1,
         key   |-> Trim(parts[1]),
         value |-> Trim(Join(Tail(parts), ":"))]

\* data[key] after the forEach of lines 229-234 over the lines' entries: the
\* last assignment wins
DataGet(entries, key) ==
    LET idx == {i \in DOMAIN entries : entries[i].valid /\ entries[i].key = <<key>>}
    IN  IF idx = {} THEN Undefined
        ELSE entries[CHOOSE i \in idx : \A j \in idx : j <= i].value

AnalysisNull == [kind |-> "null"]
AnalysisThrow(msg) == [kind |-> "throw", error |-> msg]

\* lines 236-243
AnalysisRecord(data) ==
    [kind           |-> "result",
     chosenId       |-> parseInt(DataGet(data, "CHOSEN_ID")),
     headline       |-> DataGet(data, "HEADLINE"),
     highlightWords |-> MapTrim(SplitOn(DataGet(data, "HIGHLIGHT_WORDS"), ",")),
     imagePrompt    |-> DataGet(data, "IMAGE_PROMPT"),
     caption        |-> DataGet(data, "CAPTION"),
     sourceName     |-> DataGet(data, "SOURCE_NAME")]

\* lines 226-246: the try block.  The only statement of it that can raise
\* is data['HIGHLIGHT_WORDS'].split on undefined.
ParseLines(text) ==
    LET lines == MapTrim(SplitOn(text, "\n"))
        data  == [i \in DOMAIN lines |-> LineEntry(lines[i])]
    IN  IF DataGet(data, "HIGHLIGHT_WORDS") = Undefined
        THEN AnalysisThrow("Failed to parse Gemini response")
        ELSE AnalysisRecord(data)

\* Faulty variant: the reply is compared with the sentinel without being trimmed.
ParseReplyNoTrim(resultText) ==
    IF resultText = <<"IRRELEVANT">>
    THEN [result |-> AnalysisNull, keyParsing |-> FALSE]
    ELSE [result |-> ParseLines(Trim(resultText)), keyParsing |-> TRUE]

\* Faulty variant: the reply is not compared with the sentinel.
ParseReplyNoSentinel(resultText) ==
    [result |-> ParseLines(Trim(resultText)), keyParsing |-> TRUE]

\* lines 221-246: result.text to null, a result, or a raised parse error;
\* keyParsing records whether the try block of lines 226-246 was entered.
ParseReply(resultText) ==
    LET text == Trim(resultText)
    IN  IF text = <<"IRRELEVANT">>
        THEN [result |-> AnalysisNull, keyParsing |-> FALSE]
        ELSE [result |-> ParseLines(text), keyParsing |-> TRUE]

\* The model call's answer: the call rejects, or it resolves with a text.
ModelError == [kind |-> "error", text |-> <<>>]
ModelText(t) == [kind |-> "text", text |-> t]

analyzeArticlesWithGemini(modelAnswer) ==
    IF modelAnswer.kind = "error"
    THEN [result |-> AnalysisThrow("generateContent failed"), keyParsing |-> FALSE]
    ELSE ParseReply(modelAnswer.text)

\* Faulty variant: an index that names no element gives the first element.
ArrayGetClamped(as, num) ==
    IF ~num.isNaN /\ num.n >= 0 /\ num.n < Len(as) THEN as[num.n + 1] ELSE as[1]

\* articles[i] of a JavaScript array: undefined outside 0..length-1 and for NaN
ArrayGet(as, num) ==
    IF ~num.isNaN /\ num.n >= 0 /\ num.n < Len(as) THEN as[num.n + 1] ELSE NONE

\* Faulty variant: the 1-based ID is used as the array index.
Minus1Forgotten(num) == num

\* chosenId - 1
Minus1(num) == IF num.isNaN THEN NaN ELSE Num(num.n - 1)

-----------------------------------------------------------------------------
(* RegExp over the pattern characters the model uses: "(" ")" "|" and      *)
(* literal characters, with the flags g and i.                             *)

Lower(c) == CASE c = "A" -> "a" [] c = "B" -> "b" [] OTHER -> c

toLowerCase(s) == [i \in DOMAIN s |-> Lower(s[i])]

ParseFail == [ok |-> FALSE, node |-> [type |-> "seq", terms |-> <<>>], pos |-> 0, g |-> 0]

\* Disjunction ::= Alternative ( "|" Alternative )*
\* Alternative ::= Term*        Term ::= character | "(" Disjunction ")"
\* g counts the capture groups opened so far (groups are numbered by their "(").
RECURSIVE ParseDisjunction(_, _, _)
RECURSIVE ParseAlternative(_, _, _)

ParseAlternative(p, i, g) ==
    IF i > Len(p) \/ p[i] \in {"|", ")"}
    THEN [ok |-> TRUE, node |-> [type |-> "seq", terms |-> <<>>], pos |-> i, g |-> g]
    ELSE IF p[i] = "("
    THEN LET inner == ParseDisjunction(p, i + 1, g + 1)
         IN  IF ~inner.ok \/ inner.pos > Len(p) THEN ParseFail  \* unterminated group
             ELSE LET rest == ParseAlternative(p, inner.pos + 1, inner.g)
                      grp  == [type |-> "group", idx |-> g + 1, body |-> inner.node]
                  IN  IF ~rest.ok THEN ParseFail
                      ELSE [ok |-> TRUE,
                            node |-> [type |-> "seq", terms |-> <<grp>> \o rest.node.terms],
                            pos |-> rest.pos, g |-> rest.g]
    ELSE LET rest == ParseAlternative(p, i + 1, g)
             chr  == [type |-> "char", c |-> p[i]]
         IN  IF ~rest.ok THEN ParseFail
             ELSE [ok |-> TRUE,
                   node |-> [type |-> "seq", terms |-> <<chr>> \o rest.node.terms],
                   pos |-> rest.pos, g |-> rest.g]

ParseDisjunction(p, i, g) ==
    LET first == ParseAlternative(p, i, g)
    IN  IF ~first.ok THEN ParseFail
        ELSE IF first.pos <= Len(p) /\ p[first.pos] = "|"
        THEN LET rest == ParseDisjunction(p, first.pos + 1, first.g)
             IN  IF ~rest.ok THEN ParseFail
                 ELSE [ok |-> TRUE,
                       node |-> [type |-> "alt", alts |-> <<first.node>> \o rest.node.alts],
                       pos |-> rest.pos, g |-> rest.g]
        ELSE [ok |-> TRUE, node |-> [type |-> "alt", alts |-> <<first.node>>],
              pos |-> first.pos, g |-> first.g]

\* new RegExp(pattern, 'gi'): a SyntaxError when a parenthesis is unmatched
NewRegExp(pattern) ==
    LET r == ParseDisjunction(pattern, 1, 0)
    IN  IF r.ok /\ r.pos = Len(pattern) + 1
        THEN [ok |-> TRUE, node |-> r.node, groups |-> r.g]
        ELSE [ok |-> FALSE, node |-> r.node, groups |-> 0]

\* The matches of a node at position i of s, in the backtracking order of the
\* engine (first alternative first); each is the end position and the captures.
RECURSIVE Match(_, _, _, _)
RECURSIVE MatchSeq(_, _, _, _)
RECURSIVE MatchAlt(_, _, _, _)

Match(node, s, i, caps) ==
    CASE node.type = "char" ->
            IF i <= Len(s) /\ Lower(s[i]) = Lower(node.c)
            THEN <<[pos |-> i + 1, caps |-> caps]>> ELSE <<>>
      [] node.type = "group" ->
            LET rs == Match(node.body, s, i, caps)
            IN  [k \in DOMAIN rs |->
                    [pos  |-> rs[k].pos,
                     caps |-> [rs[k].caps EXCEPT ![node.idx] = SubSeq(s, i, rs[k].pos - 1)]]]
      [] node.type = "alt" -> MatchAlt(node.alts, s, i, caps)
      [] node.type = "seq" -> MatchSeq(node.terms, s, i, caps)

MatchAlt(alts, s, i, caps) ==
    IF alts = <<>> THEN <<>>
    ELSE Match(Head(alts), s, i, caps) \o MatchAlt(Tail(alts), s, i, caps)

MatchSeq(terms, s, i, caps) ==
    IF terms = <<>> THEN <<[pos |-> i, caps |-> caps]>>
    ELSE LET first == Match(Head(terms), s, i, caps)
         IN  Concat([k \in DOMAIN first |->
                        MatchSeq(Tail(terms), s, first[k].pos, first[k].caps)])

\* RegExpExec with the sticky flag at index q (0-based): the first match or none
ExecAt(re, s, q) ==
    LET rs == Match(re.node, s, q + 1, [k \in 1..re.groups |-> Undefined])
    IN  IF rs = <<>> THEN [matched |-> FALSE, e |-> 0, caps |-> <<>>]
        ELSE [matched |-> TRUE, e |-> rs[1].pos - 1, caps |-> rs[1].caps]

\* RegExp.prototype[Symbol.split]: the loop over q with p the end of the
\* previous match; every capture group of a match is spliced into the output.
RECURSIVE SplitLoop(_, _, _, _)
SplitLoop(re, s, p, q) ==
    IF q >= Len(s) THEN <<SubSeq(s, p + 1, Len(s))>>
    ELSE LET z == ExecAt(re, s, q)
         IN  IF ~z.matched THEN SplitLoop(re, s, p, q + 1)
             ELSE LET e == IF z.e < Len(s) THEN z.e ELSE Len(s)
                  IN  IF e = p THEN SplitLoop(re, s, p, q + 1)
                      ELSE <<SubSeq(s, p + 1, q)>> \o z.caps \o SplitLoop(re, s, e, e)

RegExpSplit(re, s) ==
    IF Len(s) = 0
    THEN IF ExecAt(re, s, 0).matched THEN <<>> ELSE <<s>>
    ELSE SplitLoop(re, s, 0, 0)

-----------------------------------------------------------------------------
(* splitHeadlineForHighlighting, index.ts lines 301-311 *)

\* `(${highlightWords.join('|')})`
HighlightPattern(words) == <<"(">> \o Join(words, "|") \o <<")">>

\* part => part: undefined and the empty string are dropped
Truthy(part) == part # Undefined /\ part # <<>>

SplitThrow(msg) == [kind |-> "throw", error |-> msg, parts |-> <<>>]
SplitReturn(parts) == [kind |-> "return", error |-> "", parts |-> parts]

HeadlinePart(part, words) ==
    [text |-> part,
     highlighted |-> \E i \in DOMAIN words : toLowerCase(words[i]) = toLowerCase(part)]

splitHeadlineForHighlighting(hl, words) ==
    IF Len(words) = 0 \/ words[1] = <<>>
    THEN SplitReturn(<<[text |-> hl, highlighted |-> FALSE]>>)
    ELSE IF hl = Undefined THEN SplitThrow("TypeError")   \* undefined.split
    ELSE LET regex == NewRegExp(HighlightPattern(words))
         IN  IF ~regex.ok THEN SplitThrow("SyntaxError")
             ELSE LET parts == SelectSeq(RegExpSplit(regex, hl), Truthy)
                  IN  SplitReturn([i \in DOMAIN parts |-> HeadlinePart(parts[i], words)])

\* The texts of the segments, concatenated in order
SegmentsText(parts) == Concat([i \in DOMAIN parts |-> parts[i].text])

-----------------------------------------------------------------------------
(* getDynamicFontSize, index.ts lines 313-320 *)

\* Faulty variant: the breakpoints are compared with < instead of <=.
getDynamicFontSizeStrict(hl) ==
    LET length == Len(hl)
    IN  IF length < 50 THEN 72
        ELSE IF length < 80 THEN 64
        ELSE IF length < 120 THEN 56
        ELSE IF length < 160 THEN 48
        ELSE 40

getDynamicFontSize(hl) ==
    LET length == Len(hl)
    IN  IF length <= 50 THEN 72
        ELSE IF length <= 80 THEN 64
        ELSE IF length <= 120 THEN 56
        ELSE IF length <= 160 THEN 48
        ELSE 40

-----------------------------------------------------------------------------
(* Inputs of a batch run: what the collaborators may answer *)

\* The article the news source holds for a link.
BatchArticle(l) ==
    [link |-> l, title |-> l, pubDate |-> l % 2,
     image_url |-> "img", content |-> "text", description |-> NULL]

\* n consecutive articles of the source's feed, starting at link s
Window(s, n) == [i \in 1..n |-> BatchArticle(((s + i - 2) % MaxLinks) + 1)]

BatchResponses ==
    {NetworkError, HttpResponse(FALSE, TRUE, FALSE, <<>>)}
        \cup {HttpResponse(TRUE, TRUE, TRUE, Window(s, n)) : s \in Links, n \in 0..MaxResults}

DigitToken(n) == <<"0", "1", "2", "3", "4", "5", "6", "7", "8", "9">>[n + 1]

KeyOrder ==
    <<"CHOSEN_ID", "HEADLINE", "HIGHLIGHT_WORDS", "IMAGE_PROMPT", "CAPTION", "SOURCE_NAME">>

\* A reply of KEY: value lines, one for each key of `keys`, in the order of
\* the prompt's output format.
StructuredReply(keys, id, hl, words) ==
    LET Value(k) == CASE k = "CHOSEN_ID" -> id
                      [] k = "HEADLINE" -> hl
                      [] k = "HIGHLIGHT_WORDS" -> words
                      [] k = "IMAGE_PROMPT" -> <<"p">>
                      [] k = "CAPTION" -> <<"c">>
                      [] k = "SOURCE_NAME" -> <<"s">>
        Present(k) == k \in keys
        present    == SelectSeq(KeyOrder, Present)
    IN  Join([i \in DOMAIN present |-> <<present[i], ":", " ">> \o Value(present[i])], "\n")

BatchHeadline == <<"a", " ", "b">>
BatchWords == <<"b">>

BatchReplies ==
    {<<"IRRELEVANT">>, <<" ", "IRRELEVANT", "\n">>}
        \cup {StructuredReply(RequiredKeys, <<DigitToken(k)>>, BatchHeadline, BatchWords) :
                 k \in 0..(MaxLinks + 1)}
        \cup {StructuredReply(RequiredKeys, <<"x">>, BatchHeadline, BatchWords),
              StructuredReply(RequiredKeys, <<"-", "1">>, BatchHeadline, BatchWords),
              StructuredReply(RequiredKeys \ {"CHOSEN_ID"}, <<"1">>, BatchHeadline, BatchWords),
              StructuredReply(RequiredKeys \ {"HIGHLIGHT_WORDS"}, <<"1">>, BatchHeadline, BatchWords),
              StructuredReply(RequiredKeys \ {"HEADLINE"}, <<"1">>, BatchHeadline, BatchWords)}

ModelAnswers == {ModelError} \cup {ModelText(t) : t \in BatchReplies}

\* Each answer with what analyzeArticlesWithGemini makes of it
BatchAnalyses ==
    {[answer |-> m, analysis |-> analyzeArticlesWithGemini(m)] : m \in ModelAnswers}

-----------------------------------------------------------------------------
(* processNewsBatch, index.ts lines 85-138 *)

category == NEWS_CATEGORIES[catIdx]

\* One call made for the current category: the operation, how the called
\* service answered, and the prompt for a generation call (<<>> otherwise).
Call(op, answer, arg) == [op |-> op, answer |-> answer, arg |-> arg]

\* The values of the per-category locals before the category's first statement
ResetLocals ==
    /\ articles' = <<>>
    /\ analysisResult' = NONE
    /\ chosenArticle' = NONE
    /\ mainImageSrc' = NULL
    /\ cloudinaryUrl' = NULL
    /\ headlineParts' = SplitReturn(<<>>)
    /\ fontSize' = 0
    /\ replyText' = <<>>
    /\ headline' = <<>>
    /\ highlightWords' = <<>>
    /\ fetchResult' = Return(<<>>)
    /\ prompt' = <<>>
    /\ imageArg' = NONE
    /\ webhookPayload' = NONE
    /\ keyParsing' = FALSE
    /\ calls' = <<>>

\* Faulty variant: an error raised in a category is not caught and ends the loop.
NextCategoryAbortOnError(how) ==
    /\ outcomes' = Append(outcomes, how)
    /\ catIdx' = IF how = "failed" THEN NumCategories + 1 ELSE catIdx + 1
    /\ pc' = "loop"

\* Faulty variant: an error raised in a category leaves processNewsBatch, whose
\* promise rejects.
NextCategoryRejectOnError(how) ==
    /\ outcomes' = Append(outcomes, how)
    /\ catIdx' = catIdx + 1
    /\ pc' = IF how = "failed" THEN "rejected" ELSE "loop"

\* `continue`, the end of the try block, or the catch block: on to the next
\* category with the given outcome.
NextCategory(how) ==
    /\ outcomes' = Append(outcomes, how)
    /\ catIdx' = catIdx + 1
    /\ pc' = "loop"

\* Faulty variant: the set is replaced by one holding only the new link.
SetAddReplacing(set, value) == {value}

\* Faulty variant: the added link is lost.
SetAddLost(set, value) == set

\* Faulty variant: only the first link of a run is recorded.
SetAddFirstOnly(set, value) == IF set = {} THEN {value} ELSE set

\* line 107: usedArticleUrls.add(chosenArticle.link)
SetAdd(set, value) == set \cup {value}

\* Faulty variant: a failed image fetch ends prepareMainImage with null.
ArticleImageNoFallback(answer) ==
    IF answer = "ok"
    THEN [kind |-> "return", src |-> "data:article"]
    ELSE [kind |-> "return", src |-> NULL]

\* Faulty variant: the fetched image is not returned.
ArticleImageIgnored(answer) == [kind |-> "fallback", src |-> NULL]

\* prepareMainImage, lines 251-272: a fetched image is returned; a response
\* that is not ok, a rejected fetch and a body that cannot be read are logged
\* and fall through to line 274.
ArticleImage(answer) ==
    IF answer = "ok"
    THEN [kind |-> "return", src |-> "data:article"]
    ELSE [kind |-> "fallback", src |-> NULL]

\* Faulty variant: an error of the generation call is turned into null.
GeneratedImageSwallowed(answer) ==
    IF answer = "one_image"
    THEN [kind |-> "return", src |-> "data:generated"]
    ELSE [kind |-> "return", src |-> NULL]

\* prepareMainImage, lines 275-290: the call is outside the try block, so its
\* rejection leaves prepareMainImage; no image gives null.
GeneratedImage(answer) ==
    CASE answer = "error"     -> [kind |-> "throw", src |-> NULL]
      [] answer = "no_image"  -> [kind |-> "return", src |-> NULL]
      [] answer = "one_image" -> [kind |-> "return", src |-> "data:generated"]

\* Faulty variant: the status of the upload's response is not looked at.
UploadResultUnchecked(ok) ==
    [kind |-> "return", url |-> IF ok THEN "secure_url" ELSE NULL]

\* uploadToCloudinary, lines 462-467
UploadResult(ok) ==
    IF ok THEN [kind |-> "return", url |-> "secure_url"]
          ELSE [kind |-> "throw", url |-> NULL]

\* lines 111-119: prepareMainImage has returned src
ImageReturned(src) ==
    /\ mainImageSrc' = src
    /\ IF src = NULL
       THEN NextCategory("skipped")
       ELSE pc' = "compose" /\ UNCHANGED <<catIdx, outcomes>>

\* lines 90-94: the loop takes the next category and calls fetchNewsForCategory
BeginCategory ==
    /\ pc' = "fetchNews"
    /\ fetchStarted' = Append(fetchStarted, category.name)
    /\ ResetLocals

StartCategory ==
    /\ pc = "loop"
    /\ catIdx <= NumCategories
    /\ BeginCategory
    /\ UNCHANGED <<catIdx, usedArticleUrls, responses, chosenLog, outcomes, response>>

\* lines 94-98 and 101 (up to the model call): the news source answers
FetchNews ==
    /\ pc = "fetchNews"
    /\ \E resps \in [1..NumFetches(category) -> BatchResponses] :
          LET r == fetchNewsForCategory(category, usedArticleUrls, resps)
          IN  /\ fetchResult' = r
              /\ calls' = Append(calls, Call("fetchNews", "done", <<>>))
              /\ IF r.kind = "throw" THEN
                     /\ NextCategory("failed")
                     /\ UNCHANGED <<articles, prompt>>
                 ELSE IF Len(r.articles) = 0 THEN
                     /\ NextCategory("skipped")
                     /\ UNCHANGED <<articles, prompt>>
                 ELSE
                     /\ articles' = r.articles
                     /\ prompt' = buildGeminiPrompt(r.articles)
                     /\ pc' = "analyze"
                     /\ UNCHANGED <<catIdx, outcomes>>
    /\ UNCHANGED <<usedArticleUrls, analysisResult, chosenArticle, mainImageSrc,
                   cloudinaryUrl, headlineParts, fontSize, responses, replyText,
                   headline, highlightWords, fetchStarted, chosenLog, imageArg,
                   webhookPayload, keyParsing, response>>

\* lines 101-111 (up to the image fetch): the model answers
Analyze ==
    /\ pc = "analyze"
    /\ \E call \in BatchAnalyses :
          LET answer == call.answer
              a      == call.analysis
              chosen == IF a.result.kind = "result"
                        THEN ArrayGet(articles, Minus1(a.result.chosenId)) ELSE NONE
          IN  /\ replyText' = answer.text
              /\ analysisResult' = a.result
              /\ keyParsing' = a.keyParsing
              /\ calls' = Append(calls, Call("analyze", "done", <<>>))
              /\ IF a.result.kind = "throw" THEN
                     /\ NextCategory("failed")
                     /\ UNCHANGED <<chosenArticle, usedArticleUrls, chosenLog, imageArg>>
                 ELSE IF a.result.kind = "null" THEN
                     /\ NextCategory("skipped")
                     /\ UNCHANGED <<chosenArticle, usedArticleUrls, chosenLog, imageArg>>
                 ELSE IF chosen = NONE THEN      \* chosenArticle.link of undefined
                     /\ NextCategory("failed")
                     /\ UNCHANGED <<chosenArticle, usedArticleUrls, chosenLog, imageArg>>
                 ELSE
                     /\ chosenArticle' = chosen
                     /\ usedArticleUrls' = SetAdd(usedArticleUrls, chosen.link)
                     /\ chosenLog' = Append(chosenLog,
                                            [category |-> category.name, link |-> chosen.link])
                     /\ imageArg' = chosen
                     /\ pc' = IF chosen.image_url # NULL THEN "fetchImage" ELSE "generateImage"
                     /\ UNCHANGED <<catIdx, outcomes>>
    /\ UNCHANGED <<articles, mainImageSrc, cloudinaryUrl, headlineParts, fontSize,
                   responses, headline, highlightWords, fetchResult, fetchStarted,
                   prompt, webhookPayload, response>>

\* prepareMainImage, lines 251-272: the fetch of the article's own image ends
FetchImage ==
    /\ pc = "fetchImage"
    /\ \E answer \in {"ok", "not_ok", "network_error", "body_error"} :
          LET r == ArticleImage(answer)
          IN  /\ calls' = Append(calls, Call("fetchImage",
                                             IF answer = "ok" THEN "ok" ELSE "failed", <<>>))
              /\ IF r.kind = "fallback"
                 THEN /\ pc' = "generateImage"
                      /\ UNCHANGED <<mainImageSrc, catIdx, outcomes>>
                 ELSE ImageReturned(r.src)
    /\ UNCHANGED <<usedArticleUrls, articles, analysisResult, chosenArticle,
                   cloudinaryUrl, headlineParts, fontSize, responses, replyText,
                   headline, highlightWords, fetchResult, fetchStarted, chosenLog,
                   prompt, imageArg, webhookPayload, keyParsing, response>>

\* prepareMainImage, lines 274-290, and lines 112-115: the generation call ends
GenerateImage ==
    /\ pc = "generateImage"
    /\ \E answer \in {"error", "no_image", "one_image"} :
          LET r == GeneratedImage(answer)
          IN  /\ calls' = Append(calls, Call("generateImages", answer,
                                             analysisResult.imagePrompt))
              /\ IF r.kind = "throw"
                 THEN /\ NextCategory("failed")
                      /\ UNCHANGED mainImageSrc
                 ELSE ImageReturned(r.src)
    /\ UNCHANGED <<usedArticleUrls, articles, analysisResult, chosenArticle,
                   cloudinaryUrl, headlineParts, fontSize, responses, replyText,
                   headline, highlightWords, fetchResult, fetchStarted, chosenLog,
                   prompt, imageArg, webhookPayload, keyParsing, response>>

\* composeFinalImage, lines 322-444: the three font fetches, the segmentation,
\* the font size, then satori and resvg; any of them may raise.
Compose ==
    /\ pc = "compose"
    /\ \E fontsOk \in BOOLEAN, renderOk \in BOOLEAN :
          LET hl    == analysisResult.headline
              parts == splitHeadlineForHighlighting(hl, analysisResult.highlightWords)
              made  == fontsOk /\ parts.kind # "throw" /\ hl # Undefined /\ renderOk
          IN  /\ calls' = Append(calls, Call("compose",
                                             IF made THEN "returned" ELSE "raised", <<>>))
              /\ IF ~fontsOk THEN
                     /\ NextCategory("failed")
                     /\ UNCHANGED <<headline, highlightWords, headlineParts, fontSize>>
                 ELSE
                     /\ headline' = hl
                     /\ highlightWords' = analysisResult.highlightWords
                     /\ headlineParts' = parts
                     /\ IF parts.kind = "throw" \/ hl = Undefined THEN  \* undefined.length
                            /\ NextCategory("failed")
                            /\ UNCHANGED fontSize
                        ELSE
                            /\ fontSize' = getDynamicFontSize(hl)
                            /\ IF renderOk
                               THEN pc' = "upload" /\ UNCHANGED <<catIdx, outcomes>>
                               ELSE NextCategory("failed")
    /\ UNCHANGED <<usedArticleUrls, articles, analysisResult, chosenArticle,
                   mainImageSrc, cloudinaryUrl, responses, replyText, fetchResult,
                   fetchStarted, chosenLog, prompt, imageArg, webhookPayload, keyParsing,
                   response>>

\* uploadToCloudinary, lines 447-468
Upload ==
    /\ pc = "upload"
    /\ \E ok \in BOOLEAN :
          LET r == UploadResult(ok)
          IN  /\ calls' = Append(calls, Call("upload",
                                             IF ok THEN "ok" ELSE "failed", <<>>))
              /\ IF r.kind = "return"
                 THEN /\ cloudinaryUrl' = r.url
                      /\ pc' = "webhook"
                      /\ UNCHANGED <<catIdx, outcomes>>
                 ELSE /\ NextCategory("failed")
                      /\ UNCHANGED cloudinaryUrl
    /\ UNCHANGED <<usedArticleUrls, articles, analysisResult, chosenArticle,
                   mainImageSrc, headlineParts, fontSize, responses, replyText,
                   headline, highlightWords, fetchResult, fetchStarted, chosenLog,
                   prompt, imageArg, webhookPayload, keyParsing, response>>

\* sendToWebhook, lines 470-493, and line 129: the payload is posted and the
\* webhook answers.
Webhook ==
    /\ pc = "webhook"
    /\ webhookPayload' = [headline |-> analysisResult.headline,
                          imageUrl |-> cloudinaryUrl,
                          summary  |-> analysisResult.caption,
                          newsLink |-> chosenArticle.link,
                          status   |-> "Queue"]
    /\ \E ok \in BOOLEAN :
          /\ calls' = Append(calls, Call("webhook", IF ok THEN "ok" ELSE "failed", <<>>))
          /\ NextCategory(IF ok THEN "success" ELSE "failed")
    /\ UNCHANGED <<usedArticleUrls, articles, analysisResult, chosenArticle,
                   mainImageSrc, cloudinaryUrl, headlineParts, fontSize, responses,
                   replyText, headline, highlightWords, fetchResult, fetchStarted,
                   chosenLog, prompt, imageArg, keyParsing, response>>

\* line 137: the loop is over
Finish ==
    /\ pc = "loop"
    /\ catIdx > NumCategories
    /\ pc' = "finished"
    /\ UNCHANGED <<catIdx, usedArticleUrls, articles, analysisResult, chosenArticle,
                   mainImageSrc, cloudinaryUrl, headlineParts, fontSize, responses,
                   replyText, headline, highlightWords, fetchResult, fetchStarted,
                   chosenLog, prompt, imageArg, webhookPayload, keyParsing, outcomes,
                   calls, response>>

\* The locals of a category before its first statement
LocalsIdle ==
    /\ articles = <<>>
    /\ analysisResult = NONE
    /\ chosenArticle = NONE
    /\ mainImageSrc = NULL
    /\ cloudinaryUrl = NULL
    /\ prompt = <<>>
    /\ imageArg = NONE
    /\ webhookPayload = NONE
    /\ calls = <<>>

\* No HTTP request is being answered.
NoRequest == response = NONE

\* lines 86-88: the state of a run before its first category
Init ==
    /\ pc = "loop"
    /\ catIdx = 1
    /\ usedArticleUrls = {}
    /\ LocalsIdle
    /\ NoRequest
    /\ headlineParts = SplitReturn(<<>>)
    /\ fontSize = 0
    /\ responses = <<>>
    /\ replyText = <<>>
    /\ headline = <<>>
    /\ highlightWords = <<>>
    /\ fetchResult = Return(<<>>)
    /\ keyParsing = FALSE
    /\ fetchStarted = <<>>
    /\ chosenLog = <<>>
    /\ outcomes = <<>>

Next ==
    \/ StartCategory
    \/ FetchNews
    \/ Analyze
    \/ FetchImage
    \/ GenerateImage
    \/ Compose
    \/ Upload
    \/ Webhook
    \/ Finish

Spec == Init /\ [][Next]_vars

\* The run when every awaited call eventually returns or raises: the step
\* that is waiting for an answer is eventually taken.
SpecLive == Spec /\ WF_vars(Next)

-----------------------------------------------------------------------------
(* The manual trigger: default.fetch, index.ts lines 78-82 *)

\* line 81
AcceptedResponse ==
    [status |-> 202, body |-> "News processing batch triggered successfully."]

\* Faulty variant: the handler awaits the batch and has not answered while it runs.
ManualTriggerAwaitingBatch ==
    /\ pc = "idle"
    /\ BeginCategory
    /\ UNCHANGED <<catIdx, usedArticleUrls, responses, chosenLog, outcomes, response>>

\* The whole handler.  processNewsBatch() runs synchronously up to its first
\* await (lines 86-94: the first category's fetch is issued); the promise is
\* handed to ctx.waitUntil and the Response is returned.
ManualTrigger ==
    /\ pc = "idle"
    /\ BeginCategory
    /\ response' = AcceptedResponse
    /\ UNCHANGED <<catIdx, usedArticleUrls, responses, chosenLog, outcomes>>

\* The worker before a request arrives.
InitManual ==
    /\ pc = "idle"
    /\ catIdx = 1
    /\ usedArticleUrls = {}
    /\ LocalsIdle
    /\ NoRequest
    /\ headlineParts = SplitReturn(<<>>)
    /\ fontSize = 0
    /\ responses = <<>>
    /\ replyText = <<>>
    /\ headline = <<>>
    /\ highlightWords = <<>>
    /\ fetchResult = Return(<<>>)
    /\ keyParsing = FALSE
    /\ fetchStarted = <<>>
    /\ chosenLog = <<>>
    /\ outcomes = <<>>

NextManual ==
    \/ ManualTrigger
    \/ StartCategory
    \/ FetchNews
    \/ Analyze
    \/ FetchImage
    \/ GenerateImage
    \/ Compose
    \/ Upload
    \/ Webhook
    \/ Finish

SpecManual == InitManual /\ [][NextManual]_vars

-----------------------------------------------------------------------------
(* Specifications of single functions: the inputs are drawn by Init and one *)
(* action applies the function.                                             *)

batchVars == <<catIdx, usedArticleUrls, articles, analysisResult, chosenArticle,
               mainImageSrc, cloudinaryUrl, fetchStarted, chosenLog, prompt,
               imageArg, webhookPayload, outcomes, calls, response>>

SeqsUpTo(S, n) == UNION {[1..k -> S] : k \in 0..n}

\* No batch is running.
NoBatch ==
    /\ usedArticleUrls = {}
    /\ LocalsIdle
    /\ NoRequest
    /\ fetchStarted = <<>>
    /\ chosenLog = <<>>
    /\ outcomes = <<>>

(* getDynamicFontSize *)

InitFont ==
    /\ pc = "font"
    /\ headline \in {[i \in 1..n |-> "a"] : n \in 0..MaxFontLen}
    /\ fontSize = 0
    /\ catIdx = 0
    /\ NoBatch
    /\ headlineParts = SplitReturn(<<>>)
    /\ responses = <<>>
    /\ replyText = <<>>
    /\ highlightWords = <<>>
    /\ fetchResult = Return(<<>>)
    /\ keyParsing = FALSE

FontSize ==
    /\ pc = "font"
    /\ fontSize' = getDynamicFontSize(headline)
    /\ pc' = "fontDone"
    /\ UNCHANGED <<batchVars, headlineParts, responses, replyText, headline,
                   highlightWords, fetchResult, keyParsing>>

NextFont == FontSize

SpecFont == InitFont /\ [][NextFont]_vars

(* splitHeadlineForHighlighting *)

MaxPhraseLen == 3   \* characters of a highlight phrase
MaxPhrases == 2     \* highlight phrases of a headline

HeadlineChars == {"a", "A", "b"}
PhraseChars == {"a", "(", ")"}

InitSplit ==
    /\ pc = "split"
    /\ headline \in SeqsUpTo(HeadlineChars, MaxHeadlineLen)
    /\ highlightWords \in SeqsUpTo(SeqsUpTo(PhraseChars, MaxPhraseLen), MaxPhrases)
    /\ headlineParts = SplitReturn(<<>>)
    /\ fontSize = 0
    /\ catIdx = 0
    /\ NoBatch
    /\ responses = <<>>
    /\ replyText = <<>>
    /\ fetchResult = Return(<<>>)
    /\ keyParsing = FALSE

SplitHeadline ==
    /\ pc = "split"
    /\ headlineParts' = splitHeadlineForHighlighting(headline, highlightWords)
    /\ pc' = "splitDone"
    /\ UNCHANGED <<batchVars, fontSize, responses, replyText, headline,
                   highlightWords, fetchResult, keyParsing>>

NextSplit == SplitHeadline

SpecSplit == InitSplit /\ [][NextSplit]_vars

(* analyzeArticlesWithGemini on a reply of the model *)

Pads == {<<>>, <<" ">>, <<"\n">>, <<"\n", " ">>}

ParseIds ==
    {<<DigitToken(k)>> : k \in 0..(MaxLinks + 1)}
        \cup {<<"x">>, <<"2", "x">>, <<"-", "1">>, <<"1", "0">>, <<>>}

ParseHeadlines == {<<"a", " ", "b">>, <<"a", ":", "b">>}

ParseWords == {<<"b">>, <<"a", ",", " ", "b">>, <<>>}

ParseReplies ==
    {pre \o <<"IRRELEVANT">> \o post : pre \in Pads, post \in Pads}
        \cup {<<"IRRELEVANT", ".">>, <<"IRRELEVANT", " ", "IRRELEVANT">>, <<"irrelevant">>,
              <<"IRRELEVANT", ":", "x">>, <<" ">>}
        \cup {StructuredReply(keys, id, hl, words) :
                 keys \in SUBSET RequiredKeys, id \in ParseIds,
                 hl \in ParseHeadlines, words \in ParseWords}
        \cup {pre \o StructuredReply(RequiredKeys, <<"1">>, <<"a">>, <<"a">>) \o post :
                 pre \in Pads, post \in Pads}

InitParse ==
    /\ pc = "parse"
    /\ replyText \in ParseReplies
    /\ articles \in {Window(1, n) : n \in 1..MaxLinks}
    /\ analysisResult = NONE
    /\ keyParsing = FALSE
    /\ catIdx = 0
    /\ usedArticleUrls = {}
    /\ chosenArticle = NONE
    /\ mainImageSrc = NULL
    /\ cloudinaryUrl = NULL
    /\ prompt = <<>>
    /\ imageArg = NONE
    /\ webhookPayload = NONE
    /\ calls = <<>>
    /\ NoRequest
    /\ fetchStarted = <<>>
    /\ chosenLog = <<>>
    /\ outcomes = <<>>
    /\ headlineParts = SplitReturn(<<>>)
    /\ fontSize = 0
    /\ responses = <<>>
    /\ headline = <<>>
    /\ highlightWords = <<>>
    /\ fetchResult = Return(<<>>)

ParseModelReply ==
    /\ pc = "parse"
    /\ LET a == analyzeArticlesWithGemini(ModelText(replyText))
       IN  /\ analysisResult' = a.result
           /\ keyParsing' = a.keyParsing
    /\ pc' = "parseDone"
    /\ UNCHANGED <<catIdx, usedArticleUrls, articles, chosenArticle, mainImageSrc,
                   cloudinaryUrl, fetchStarted, chosenLog, prompt, imageArg,
                   webhookPayload, outcomes, headlineParts, fontSize, responses,
                   replyText, headline, highlightWords, fetchResult, calls, response>>

NextParse == ParseModelReply

SpecParse == InitParse /\ [][NextParse]_vars

(* fetchNewsForCategory on the answers of the news source *)

Variants == {1, 2}

\* An eligible article: the variants of a link differ in title and date.
SourceArticle(l, t) ==
    [link |-> l, title |-> t, pubDate |-> t,
     image_url |-> "img", content |-> "text", description |-> NULL]

FetchArticles ==
    {SourceArticle(l, t) : l \in Links, t \in Variants}
        \cup {[SourceArticle(1, 1) EXCEPT !.image_url = NULL],
              [SourceArticle(1, 1) EXCEPT !.content = NULL],
              [SourceArticle(2, 1) EXCEPT !.content = NULL, !.description = "desc"]}

FailedResponses ==
    {NetworkError,                              \* the fetch rejects
     HttpResponse(FALSE, TRUE, FALSE, <<>>),    \* an error status with a JSON body
     HttpResponse(TRUE, FALSE, FALSE, <<>>)}    \* a body that is not JSON

\* The news source ignores size=10: one article more than asked for, all
\* eligible, with distinct links.
LongResponse ==
    HttpResponse(TRUE, TRUE, TRUE, [i \in 1..(SliceLimit + 1) |-> SourceArticle(i, 1)])

\* answers to one sub-fetch of the aggregate category
AggregateResponses ==
    FailedResponses
        \cup {HttpResponse(TRUE, TRUE, TRUE, rs) : rs \in SeqsUpTo(FetchArticles, 1)}
        \cup {LongResponse}

\* answers to the fetch of a single category
SingleResponses ==
    FailedResponses
        \cup {HttpResponse(TRUE, TRUE, FALSE, <<>>)}
        \cup {HttpResponse(TRUE, TRUE, TRUE, rs) : rs \in SeqsUpTo(FetchArticles, MaxResults)}
        \cup {LongResponse}

InitFetch ==
    /\ pc = "fetch"
    /\ catIdx \in 1..NumCategories
    /\ usedArticleUrls \in {u \in SUBSET Links : Cardinality(u) <= 1}
    /\ responses \in IF NEWS_CATEGORIES[catIdx].apiValue = "top"
                     THEN [1..Len(OtherCategories) -> AggregateResponses]
                     ELSE [1..1 -> SingleResponses]
    /\ fetchResult = Return(<<>>)
    /\ LocalsIdle
    /\ NoRequest
    /\ fetchStarted = <<>>
    /\ chosenLog = <<>>
    /\ outcomes = <<>>
    /\ headlineParts = SplitReturn(<<>>)
    /\ fontSize = 0
    /\ replyText = <<>>
    /\ headline = <<>>
    /\ highlightWords = <<>>
    /\ keyParsing = FALSE

FetchForCategory ==
    /\ pc = "fetch"
    /\ fetchResult' = fetchNewsForCategory(category, usedArticleUrls, responses)
    /\ pc' = "fetchDone"
    /\ UNCHANGED <<batchVars, headlineParts, fontSize, responses, replyText,
                   headline, highlightWords, keyParsing>>

NextFetch == FetchForCategory

SpecFetch == InitFetch /\ [][NextFetch]_vars

-----------------------------------------------------------------------------
(* The claims *)

\* C1: within one run no article link is chosen by more than one category:
\* any two 'Chosen article' steps of the run are of different categories and
\* have different links.
C1_NoLinkChosenTwice ==
    \A i, j \in DOMAIN chosenLog :
        i # j => /\ chosenLog[i].link # chosenLog[j].link
                 /\ chosenLog[i].category # chosenLog[j].category

\* C1 witness: every link of the source has been chosen, each by its own category.
C1_Witness ==
    /\ Len(chosenLog) >= 2
    /\ usedArticleUrls = Links

\* C2: fetchNewsForCategory is started exactly once per category, in the order
\* of NEWS_CATEGORIES, whatever the outcomes of the categories before: the calls
\* made so far are the first categories of the list, one call for each category
\* begun, and a finished run has made all five.
C2_EveryCategoryAttempted ==
    /\ Len(fetchStarted) <= NumCategories
    /\ \A i \in DOMAIN fetchStarted : fetchStarted[i] = NEWS_CATEGORIES[i].name
    /\ pc = "loop" => Len(fetchStarted) = Len(outcomes)
    /\ pc \notin {"loop", "finished"} => Len(fetchStarted) = Len(outcomes) + 1
    /\ pc = "finished" => Len(fetchStarted) = NumCategories /\ Len(outcomes) = NumCategories

\* C2 witness: a finished run in which the first four categories failed, each
\* by a raised error, and the fifth was still fetched.
C2_Witness ==
    /\ pc = "finished"
    /\ Len(fetchStarted) = NumCategories
    /\ \A i \in 1..(NumCategories - 1) : outcomes[i] = "failed"

\* A reply is the sentinel surrounded by whitespace only.
IsSentinelReply(t) ==
    \E i \in DOMAIN t :
        /\ t[i] = "IRRELEVANT"
        /\ \A j \in DOMAIN t : j # i => t[j] \in Whitespace

\* C3 (as claimed): a reply that is not the sentinel and lacks one of the six
\* keys makes analyzeArticlesWithGemini raise a parse error.
C3_ParseCompleteness ==
    (/\ pc = "parseDone"
     /\ ~IsSentinelReply(replyText)
     /\ \E k \in RequiredKeys : k \notin Range(replyText))
        => analysisResult.kind = "throw"

\* C4 (as claimed): for a reply that has all six keys, analyzeArticlesWithGemini
\* never returns a result whose chosen index is not a position 1..n of the
\* CandidateSet (a CHOSEN_ID that is no integer or is out of range is a parse error).
C4_ChosenIdInRange ==
    (/\ pc = "parseDone"
     /\ \A k \in RequiredKeys : k \in Range(replyText)
     /\ analysisResult.kind = "result")
        => /\ ~analysisResult.chosenId.isNaN
           /\ analysisResult.chosenId.n \in 1..Len(articles)

\* C5: a reply that is IRRELEVANT once leading and trailing whitespace is removed
\* yields null without the key/value parsing being entered; no other reply yields null.
C5_SentinelPrecedence ==
    pc = "parseDone" =>
        /\ IsSentinelReply(replyText) => analysisResult = AnalysisNull /\ ~keyParsing
        /\ ~IsSentinelReply(replyText) => analysisResult.kind # "null" /\ keyParsing

\* C5 witness: the sentinel with whitespace on both sides was answered with null.
C5_Witness ==
    /\ pc = "parseDone"
    /\ replyText = <<"\n", " ", "IRRELEVANT", " ">>
    /\ analysisResult = AnalysisNull
    /\ ~keyParsing

\* C6 (as claimed): for the aggregate category, a sub-fetch that failed, by a
\* network error or a non-success status, makes fetchNewsForCategory raise.
C6_AggregateAllOrNothing ==
    (/\ pc = "fetchDone"
     /\ category.apiValue = "top"
     /\ \E i \in DOMAIN responses : responses[i].kind = "network_error" \/ ~responses[i].ok)
        => fetchResult.kind = "throw"

\* The first article with link l in the merged responses
FirstWithLink(merged, l) ==
    merged[CHOOSE i \in DOMAIN merged :
              merged[i].link = l /\ \A j \in 1..(i - 1) : merged[j].link # l]

\* C7 (as claimed): when every sub-fetch succeeded, of the merged articles that share a link the aggregator keeps
\* exactly one, the first in merge order: every returned article is the first
\* occurrence of its link, and no link is returned twice.
C7_DedupKeepsFirst ==
    (/\ pc = "fetchDone"
     /\ category.apiValue = "top"
     /\ \A i \in DOMAIN responses : responses[i].kind = "http" /\ responses[i].ok
     /\ fetchResult.kind = "return")
        => LET merged == AllArticles(responses)
               out    == fetchResult.articles
           IN  /\ \A i \in DOMAIN out : out[i] = FirstWithLink(merged, out[i].link)
               /\ \A i, j \in DOMAIN out : i # j => out[i].link # out[j].link

\* C8: the prompt entry with ID k is the article at position k of the
\* CandidateSet, and the article treated as chosen for CHOSEN_ID k (added to the
\* used links, handed to the image resolver, its link posted to the webhook) is
\* that same article.
C8_CandidateOrdering ==
    /\ pc \in {"analyze", "fetchImage", "generateImage", "compose", "upload", "webhook"}
          => /\ Len(prompt) = Len(articles)
             /\ \A k \in DOMAIN prompt :
                    prompt[k].ID = k /\ prompt[k].Title = articles[k].title
    /\ chosenArticle # NONE
          => LET k == analysisResult.chosenId.n
             IN  /\ k \in DOMAIN prompt
                 /\ prompt[k].ID = k
                 /\ prompt[k].Title = chosenArticle.title
                 /\ chosenArticle = articles[k]
                 /\ chosenArticle.link \in usedArticleUrls
                 /\ imageArg = chosenArticle
                 /\ webhookPayload # NONE => webhookPayload.newsLink = articles[k].link

\* C8 witness: the reply chose ID 2 of several candidates and the webhook was
\* posted with the link of the second candidate.
C8_Witness ==
    /\ webhookPayload # NONE
    /\ Len(articles) >= 2
    /\ analysisResult.chosenId.n = 2
    /\ prompt[2].Title = chosenArticle.title
    /\ webhookPayload.newsLink = articles[2].link
    /\ articles[1].link # articles[2].link

\* C9 (as claimed): the texts of the segments splitHeadlineForHighlighting
\* returns, concatenated in order, are the headline.
C9_SegmentationRoundTrip ==
    (pc = "splitDone" /\ headlineParts.kind = "return")
        => SegmentsText(headlineParts.parts) = headline

\* C10: getDynamicFontSize is the step function 72 / 64 / 56 / 48 / 40 with
\* breakpoints at lengths 50, 80, 120 and 160 (each breakpoint belonging to
\* the larger size), and so is non-increasing in the length.
C10_FontSizeSteps ==
    pc = "fontDone" =>
        LET L == Len(headline)
        IN  /\ L <= 50 => fontSize = 72
            /\ (50 < L /\ L <= 80) => fontSize = 64
            /\ (80 < L /\ L <= 120) => fontSize = 56
            /\ (120 < L /\ L <= 160) => fontSize = 48
            /\ L > 160 => fontSize = 40
            /\ \A n \in 0..L : getDynamicFontSize(SubSeq(headline, 1, n)) >= fontSize

\* C10 witness: a headline of 51 characters got the second size.
C10_Witness ==
    /\ pc = "fontDone"
    /\ Len(headline) = 51
    /\ fontSize = 64

\* the outcome of the category that ended last
LastOutcome == outcomes[Len(outcomes)]

\* the positions of the calls of one operation made for the current category
CallsOf(op) == {i \in DOMAIN calls : calls[i].op = op}

\* C11: when the model's reply is exactly IRRELEVANT (surrounding whitespace
\* aside) the category is skipped: the step that receives the reply leaves
\* usedArticleUrls unchanged, resolves no image, composes, uploads and posts
\* nothing (the category's only calls are the news fetch and the model call),
\* records the category as skipped and moves the loop to the next category.
C11_SentinelSkipsCategory ==
    [][(pc = "analyze" /\ IsSentinelReply(replyText'))
          => /\ usedArticleUrls' = usedArticleUrls
             /\ chosenLog' = chosenLog
             /\ imageArg' = NONE
             /\ mainImageSrc' = NULL
             /\ cloudinaryUrl' = NULL
             /\ webhookPayload' = NONE
             /\ [i \in DOMAIN calls' |-> calls'[i].op] = <<"fetchNews", "analyze">>
             /\ outcomes' = Append(outcomes, "skipped")
             /\ catIdx' = catIdx + 1
             /\ pc' = "loop"]_vars

\* C11 witness: the second category ended on a sentinel reply after the first
\* one had chosen an article.
C11_Witness ==
    /\ pc = "loop"
    /\ Len(outcomes) = 2
    /\ IsSentinelReply(replyText)
    /\ Cardinality(usedArticleUrls) = 1
    /\ LastOutcome = "skipped"

\* C12: when the fetch of the chosen article's image fails (rejected, or a
\* status that is not ok), the next call of the category is one generation
\* call with the selection's image prompt, and it is the category's only
\* generation call; if it returns an image, that image is mainImageSrc; if it
\* returns none, mainImageSrc is null and the category ends skipped with no
\* compose, upload or webhook call.
C12_FallbackToGeneration ==
    \A i \in DOMAIN calls :
        (calls[i].op = "fetchImage" /\ calls[i].answer = "failed") =>
            IF i = Len(calls)
            THEN pc = "generateImage"
            ELSE /\ calls[i + 1].op = "generateImages"
                 /\ calls[i + 1].arg = analysisResult.imagePrompt
                 /\ CallsOf("generateImages") = {i + 1}
                 /\ calls[i + 1].answer = "one_image" =>
                        /\ mainImageSrc = "data:generated"
                        /\ Len(calls) = i + 1 => pc = "compose"
                 /\ calls[i + 1].answer = "no_image" =>
                        /\ mainImageSrc = NULL
                        /\ Len(calls) = i + 1
                        /\ pc \in {"loop", "finished"}
                        /\ LastOutcome = "skipped"
                        /\ cloudinaryUrl = NULL
                        /\ webhookPayload = NONE

\* C12 witness: the image fetch failed, the generation call returned no image
\* and the category has ended.
C12_Witness ==
    /\ pc = "loop"
    /\ Len(calls) = 4
    /\ calls[3].op = "fetchImage" /\ calls[3].answer = "failed"
    /\ calls[4].op = "generateImages" /\ calls[4].answer = "no_image"

\* C13 (as claimed): whatever the category and whatever the news source
\* answers, fetchNewsForCategory returns at most 10 articles.
C13_AtMostTenCandidates ==
    (pc = "fetchDone" /\ fetchResult.kind = "return")
        => Len(fetchResult.articles) <= SliceLimit

\* rawArticles of the call: the list the two filters of lines 166-167 run over
RawArticlesOfCall ==
    IF category.apiValue = "top"
    THEN AggregateRawArticles(responses)
    ELSE SingleRawArticles(responses[1])

\* sub can be obtained from full by deleting elements
RECURSIVE IsSubsequence(_, _)
IsSubsequence(sub, full) ==
    IF sub = <<>> THEN TRUE
    ELSE IF full = <<>> THEN FALSE
    ELSE IF Head(sub) = Head(full) THEN IsSubsequence(Tail(sub), Tail(full))
    ELSE IsSubsequence(sub, Tail(full))

\* C14: every article fetchNewsForCategory returns has an image reference,
\* has a body or a description, and a link that is not in the set of used
\* links it was given; and the returned articles are in the relative order
\* they had in rawArticles, before the filters.
C14_CandidatesEligibleInOrder ==
    (pc = "fetchDone" /\ fetchResult.kind = "return") =>
        /\ \A i \in DOMAIN fetchResult.articles :
              LET a == fetchResult.articles[i]
              IN  /\ a.image_url # NULL
                  /\ (a.content # NULL \/ a.description # NULL)
                  /\ a.link \notin usedArticleUrls
        /\ IsSubsequence(fetchResult.articles, RawArticlesOfCall.articles)

\* C14 witness: the filters removed an article and kept at least two.
C14_Witness ==
    /\ pc = "fetchDone"
    /\ fetchResult.kind = "return"
    /\ Len(fetchResult.articles) >= 2
    /\ Len(RawArticlesOfCall.articles) > Len(fetchResult.articles)
    /\ \E i \in DOMAIN RawArticlesOfCall.articles :
          RawArticlesOfCall.articles[i].image_url = NULL

\* C15: usedArticleUrls starts empty; no step removes a link from it; a step
\* adds at most one link, and only the step of a category in which the model
\* call returns a selection result (so at most one link per category); at any
\* time it holds at most as many links as categories have been started.
C15_UsedLinksGrowOnly ==
    /\ usedArticleUrls = {}
    /\ [](Cardinality(usedArticleUrls) <= Len(fetchStarted))
    /\ [][/\ usedArticleUrls \subseteq usedArticleUrls'
          /\ Cardinality(usedArticleUrls' \ usedArticleUrls) <= 1
          /\ usedArticleUrls' # usedArticleUrls =>
                /\ pc = "analyze"
                /\ CallsOf("analyze") = {}
                /\ analysisResult'.kind = "result"
                /\ fetchStarted' = fetchStarted]_vars

\* C15 witness: the run is over, two categories added a link and the last
\* category, whose selection gave no result, added none.
C15_Witness ==
    /\ pc = "finished"
    /\ Cardinality(usedArticleUrls) = 2
    /\ analysisResult.kind = "null"
    /\ Len(chosenLog) = 2

\* C16: the manual trigger answers 202 with the fixed body without waiting for
\* the batch: the Response exists from the first moment the batch is under way
\* (no category has ended when it is produced), and it is the same Response at
\* every later point of the run, whatever the outcomes of the categories.
C16_ManualTriggerAccepted ==
    /\ pc = "idle" => response = NONE
    /\ pc # "idle" =>
          /\ response # NONE
          /\ response.status = 202
          /\ response.body = "News processing batch triggered successfully."

\* C16 witness: the answer is 202 after a run in which every category failed.
C16_Witness ==
    /\ pc = "finished"
    /\ response # NONE
    /\ response.status = 202
    /\ \A i \in DOMAIN outcomes : outcomes[i] = "failed"
    /\ Len(outcomes) = NumCategories

\* the category whose fetch was started last
CurrentCategoryName == fetchStarted[Len(fetchStarted)]

\* C17: the categories are processed one after the other.  At most one
\* category is in progress (started and not ended); a category is started
\* only when every category started before has ended; a call is made only
\* for the one category in progress; and what a category's fetch returns
\* contains no link that an earlier category added to usedArticleUrls, every
\* such link being in the set.
C17_CategoriesSequential ==
    /\ [](/\ Len(fetchStarted) - Len(outcomes) \in {0, 1}
          /\ (Len(fetchStarted) - Len(outcomes) = 1) <=> (pc \notin {"loop", "finished"})
          /\ \A i \in DOMAIN chosenLog : chosenLog[i].link \in usedArticleUrls
          /\ (fetchStarted # <<>> /\ fetchResult.kind = "return") =>
                \A i \in DOMAIN fetchResult.articles, j \in DOMAIN chosenLog :
                    chosenLog[j].category # CurrentCategoryName
                        => fetchResult.articles[i].link # chosenLog[j].link)
    /\ [][/\ fetchStarted' # fetchStarted =>
                /\ Len(outcomes) = Len(fetchStarted)
                /\ Len(fetchStarted') = Len(fetchStarted) + 1
                /\ outcomes' = outcomes
          /\ calls' # calls /\ calls' # <<>> =>
                /\ Len(fetchStarted) = Len(outcomes) + 1
                /\ fetchStarted' = fetchStarted]_vars

\* C17 witness: the third category's fetch has returned candidates after both
\* earlier categories added a link.
C17_Witness ==
    /\ pc = "analyze"
    /\ Len(fetchStarted) = 3
    /\ Len(outcomes) = 2
    /\ Cardinality(usedArticleUrls) = 2
    /\ articles # <<>>

\* the call made just before the i-th call of the current category
CallBefore(i) == IF i > 1 THEN calls[i - 1] ELSE Call("none", "none", <<>>)

\* C18: the calls of a category are made in the order fetch, select, resolve
\* image (the article's image, then possibly the generation), compose,
\* upload, webhook, each only after the one before it has succeeded: compose
\* only after an image was obtained, upload only after compose returned a
\* graphic, the webhook post only after the upload succeeded.  When compose
\* (fonts, segmentation or rendering) or the upload raises, it is the
\* category's last call: nothing is uploaded or posted afterwards and the
\* category ends as failed.
C18_StepsInOrder ==
    /\ \A i \in DOMAIN calls :
          LET c    == calls[i]
              prev == CallBefore(i)
          IN  /\ c.op = "fetchNews" <=> i = 1
              /\ c.op = "analyze" => prev.op = "fetchNews"
              /\ c.op = "fetchImage" => prev.op = "analyze"
              /\ c.op = "generateImages" => prev.op \in {"analyze", "fetchImage"}
              /\ c.op = "compose" =>
                    \/ prev.op = "fetchImage" /\ prev.answer = "ok"
                    \/ prev.op = "generateImages" /\ prev.answer = "one_image"
              /\ c.op = "upload" => prev.op = "compose" /\ prev.answer = "returned"
              /\ c.op = "webhook" =>
                    /\ prev.op = "upload" /\ prev.answer = "ok"
                    /\ cloudinaryUrl = "secure_url"
                    /\ i = Len(calls)
              /\ (\/ c.op = "compose" /\ c.answer = "raised"
                  \/ c.op = "upload" /\ c.answer = "failed") =>
                    /\ i = Len(calls)
                    /\ pc \in {"loop", "finished"}
                    /\ LastOutcome = "failed"
                    /\ webhookPayload = NONE
    /\ webhookPayload # NONE => CallsOf("webhook") # {}
    /\ cloudinaryUrl # NULL => \E i \in CallsOf("upload") : calls[i].answer = "ok"

\* C18 witness: a category in which the graphic was composed and the upload
\* failed has ended.
C18_Witness ==
    /\ pc = "loop"
    /\ Len(calls) = 5
    /\ calls[4].op = "compose" /\ calls[4].answer = "returned"
    /\ calls[5].op = "upload" /\ calls[5].answer = "failed"
    /\ LastOutcome = "failed"

\* C19: when the chosen article has an image reference and the fetch of it
\* succeeds, prepareMainImage returns the fetched image (it is mainImageSrc,
\* and compose is the next step) and no generation call is made for the
\* category.
C19_FetchedImageIsUsed ==
    \A i \in DOMAIN calls :
        (calls[i].op = "fetchImage" /\ calls[i].answer = "ok") =>
            /\ imageArg.image_url # NULL
            /\ mainImageSrc = "data:article"
            /\ CallsOf("generateImages") = {}
            /\ i = Len(calls) => pc = "compose"
            /\ i < Len(calls) => calls[i + 1].op = "compose"

\* C19 witness: a category that used the fetched image has been posted.
C19_Witness ==
    /\ pc = "loop"
    /\ \E i \in CallsOf("fetchImage") : calls[i].answer = "ok"
    /\ mainImageSrc = "data:article"
    /\ LastOutcome = "success"

\* C20: a generation call that raises is not turned into the null result:
\* it is the category's last call, mainImageSrc stays unset, the category is
\* recorded as failed (not skipped), and the loop goes on: the next category,
\* if there is one, can start.
C20_GenerationErrorFailsCategory ==
    \A i \in DOMAIN calls :
        (calls[i].op = "generateImages" /\ calls[i].answer = "error") =>
            /\ i = Len(calls)
            /\ mainImageSrc = NULL
            /\ LastOutcome = "failed"
            /\ catIdx = Len(outcomes) + 1
            /\ pc \in {"loop", "finished"}
            /\ (pc = "loop" /\ Len(outcomes) < NumCategories) => ENABLED StartCategory

\* C20 witness: the generation call of the first category raised and the loop
\* is about to start the second category.
C20_Witness ==
    /\ pc = "loop"
    /\ catIdx = 2
    /\ outcomes = <<"failed">>
    /\ Len(calls) = 4
    /\ calls[4].op = "generateImages" /\ calls[4].answer = "error"

\* C21: when every awaited call eventually returns or raises, processNewsBatch
\* reaches 'Batch Process Finished' with all five categories ended, whatever
\* was raised on the way; and it stays finished.
C21_BatchTerminates ==
    <>[](pc = "finished" /\ Len(outcomes) = NumCategories)

\* C21 witness: the run has finished and had a failed, a skipped and a posted
\* category.
C21_Witness ==
    /\ pc = "finished"
    /\ Len(outcomes) = NumCategories
    /\ {"failed", "skipped", "success"} \subseteq Range(outcomes)

\* the position, in start order, of the category with the given name
CategoryIndexOf(name) == CHOOSE k \in DOMAIN fetchStarted : fetchStarted[k] = name

\* C22: the chosen article's link is in usedArticleUrls from the selection
\* on, before any image fetch or generation call, and no step removes a link.
\* When the choosing category ended without a post that succeeded (skipped
\* for lack of an image, or failed at generation, compose, upload or
\* webhook), the link is still in the set and no later category's fetch
\* returns an article with that link.
C22_ChosenLinkStaysUsed ==
    /\ [](/\ chosenArticle # NONE => chosenArticle.link \in usedArticleUrls
          /\ (CallsOf("fetchImage") \cup CallsOf("generateImages")) # {}
                => chosenArticle # NONE
          /\ \A j \in DOMAIN chosenLog :
                LET k == CategoryIndexOf(chosenLog[j].category)
                IN  (k <= Len(outcomes) /\ outcomes[k] # "success") =>
                        /\ chosenLog[j].link \in usedArticleUrls
                        /\ (Len(fetchStarted) > k /\ fetchResult.kind = "return") =>
                              \A i \in DOMAIN fetchResult.articles :
                                  fetchResult.articles[i].link # chosenLog[j].link)
    /\ [][usedArticleUrls \subseteq usedArticleUrls']_vars

\* C22 witness: the first category chose an article and failed afterwards;
\* the second category's fetch has returned candidates.
C22_Witness ==
    /\ pc = "analyze"
    /\ Len(fetchStarted) = 2
    /\ outcomes = <<"failed">>
    /\ Len(chosenLog) = 1
    /\ chosenLog[1].link \in usedArticleUrls
    /\ articles # <<>>

\* C23: when the model call returns a result whose chosenId names no
\* candidate (NaN for a missing or non-numeric CHOSEN_ID, 0, negative, or
\* greater than the number of candidates), the step that receives it ends
\* the category as failed with nothing changed and nothing done:
\* usedArticleUrls and the chosen-article log are unchanged, no article is
\* chosen, the category's only calls are the news fetch and the model call,
\* and no image, upload URL or webhook payload exists.
C23_InvalidIndexFailsCleanly ==
    [][(/\ pc = "analyze"
        /\ analysisResult'.kind = "result"
        /\ \/ analysisResult'.chosenId.isNaN
           \/ analysisResult'.chosenId.n < 1
           \/ analysisResult'.chosenId.n > Len(articles))
          => /\ usedArticleUrls' = usedArticleUrls
             /\ chosenLog' = chosenLog
             /\ chosenArticle' = NONE
             /\ imageArg' = NONE
             /\ mainImageSrc' = NULL
             /\ cloudinaryUrl' = NULL
             /\ webhookPayload' = NONE
             /\ [i \in DOMAIN calls' |-> calls'[i].op] = <<"fetchNews", "analyze">>
             /\ outcomes' = Append(outcomes, "failed")
             /\ catIdx' = catIdx + 1
             /\ pc' = "loop"]_vars

\* C23 witness: the second category ended on a result with a negative
\* chosenId, the set of used links holding the first category's link.
C23_Witness ==
    /\ pc = "loop"
    /\ Len(outcomes) = 2
    /\ analysisResult.kind = "result"
    /\ ~analysisResult.chosenId.isNaN
    /\ analysisResult.chosenId.n < 0
    /\ chosenArticle = NONE
    /\ Cardinality(usedArticleUrls) = 1
    /\ LastOutcome = "failed"

====
